---- MODULE Spec2Model ----
(***************************************************************************)
(* Model of src/target/adiv6.c (Black Magic Debug, transport generic       *)
(* ADIv6 functions): DP discovery (adiv6_dp_init), the discovery-time CIDR *)
(* read (adiv6_dp_read_id, adiv6_component_probe) and the AP register      *)
(* proxy (adiv6_ap_reg_read / adiv6_ap_reg_write).                         *)
(*                                                                         *)
(* Machine words are sets of bit positions: a uint32_t is a subset of      *)
(* 0..31, a uint64_t a subset of 0..63.  Bitwise AND/OR are intersection   *)
(* and union, a cast to uint32_t drops the positions >= 32, a shift moves  *)
(* the positions and drops those that leave the word.                      *)
(***************************************************************************)
EXTENDS Integers, Sequences, FiniteSets, TLC

(* ------------------------------------------------------------------ *)
(* Word arithmetic                                                     *)
(* ------------------------------------------------------------------ *)

\* The bit positions set in the natural number n, 0 <= n < 2^31.
Bits(n) == {i \in 0..30 : (n \div (2 ^ i)) % 2 = 1}

RECURSIVE Val(_)
\* The natural number whose set bits are s (s a subset of 0..30).
Val(s) == IF s = {} THEN 0
          ELSE LET b == CHOOSE x \in s : TRUE IN (2 ^ b) + Val(s \ {b})

\* (uint32_t)x
U32(x) == {b \in x : b < 32}
\* x >> k
Shr(x, k) == {b - k : b \in {c \in x : c >= k}}
\* (uint32_t)x << k, x a 32-bit word
Shl32(x, k) == {c \in {b + k : b \in x} : c < 32}
\* (uint64_t)x << k
Shl64(x, k) == {c \in {b + k : b \in x} : c < 64}
\* ~x, x a 32-bit word
Not32(x) == (0..31) \ x

(* ------------------------------------------------------------------ *)
(* Protocol constants of adiv5.h / adiv6_internal.h / cortex.h         *)
(* (ADIv6 architecture, IHI0074)                                       *)
(* ------------------------------------------------------------------ *)

ADIV5_APnDP == \h100
ADIV5_DP_SELECT == \h8
ADIV6_DP_SELECT1 == \h4
ADIV6_DP_DPIDR1 == \h0
ADIV6_DP_BASEPTR0 == \h0
ADIV6_DP_BASEPTR1 == \h0
ADIV5_DP_BANK1 == Bits(1)
ADIV5_DP_BANK2 == Bits(2)
ADIV5_DP_BANK3 == Bits(3)
ADIV5_DP_BANK5 == Bits(5)
\* DPIDR1.ASIZE, bits [6:0]
ADIV6_DP_DPIDR1_ASIZE_MASK == Bits(\h7f)
\* BASEPTR0.VALID, bit 0
ADIV6_DP_BASEPTR0_VALID == {0}
\* UINT64_C(0xfffffffffffff000)
ADIV6_DP_BASE_ADDRESS_MASK == 12..63
ADIV6_AP_BANK_MASK == Bits(\hf0f0)
CIDR0_OFFSET == \hff0
\* 0xb105000d
CID_PREAMBLE == Bits(\h3105000d) \cup {31}
CID_CLASS_MASK == Bits(\hf000)

\* SELECT.DPBANKSEL, bits [3:0]: the DP register bank the window shows
DPBANKSEL(sel) == sel \cap (0..3)

(* ------------------------------------------------------------------ *)
(* State                                                               *)
(* ------------------------------------------------------------------ *)

VARIABLES
    dp,          \* adiv5_debug_port_s: ap_read, ap_write, address_width
    aps,         \* the callers' adiv6_access_port_s handles: ap_address of each
    select,      \* DP-resident SELECT register
    select1,     \* DP-resident SELECT1 register
    th,          \* per caller: position in the running function and its locals
    threads,     \* the callers that use this DP
    locking,     \* whether the callers wrap each call in a lock scoped to the DP
    owner,       \* holder of that lock (0: free)
    apollo       \* apollo3.c: the probed targets, the heap, the probe's position

vars == <<dp, aps, select, select1, th, threads, locking, owner, apollo>>

AllThreads == {1, 2}
\* Calls the callers make, in all, while they share the DP.
MaxCalls == 2
ApIds == {1, 2}

(* Values the transport can return and the callers can pass.  A caller    *)
(* racing with another one draws from the first values only.              *)

\* DPIDR1: ASIZE 40; ASIZE 12 with ERRMODE (bit 7) set; ASIZE 64; ASIZE 100
DPIDR1Vals == IF Cardinality(threads) = 1
              THEN {Bits(40), Bits(12) \cup {7}, Bits(64), Bits(100)}
              ELSE {Bits(40)}
\* BASEPTR0: 0x00001001 (Scenario A); 0x00001000 (Scenario B); 0x80002003
BASEPTR0Vals == IF Cardinality(threads) = 1
                THEN {Bits(\h1001), Bits(\h1000), Bits(\h2003) \cup {31}}
                ELSE {Bits(\h1001)}
\* BASEPTR1: 0; 0x00000002; 0x00000100 (bit 40 of the address)
BASEPTR1Vals == IF Cardinality(threads) = 1
                THEN {{}, Bits(\h2), Bits(\h100)}
                ELSE {Bits(\h2)}
\* The i-th CIDR read: the preamble's byte under garbage upper bits, or another
\* byte; CIDR1 carries the class nibble (0x10, 0x90) in its upper half.
CIDRVals(i) == IF Cardinality(threads) = 1
               THEN CASE i = 0 -> {Bits(\hab0d), Bits(\h0c)}
                      [] i = 1 -> {Bits(\h10), Bits(\h7790), Bits(\h11)}
                      [] i = 2 -> {Bits(\h05), Bits(\h04)}
                      [] i = 3 -> {Bits(\h1b1), Bits(\hb1) \cup {31}, Bits(\hb0)}
               ELSE CASE i = 0 -> {Bits(\h0d)}
                      [] i = 1 -> {Bits(\h10)}
                      [] i = 2 -> {Bits(\h05)}
                      [] i = 3 -> {Bits(\hb1)}
\* ap_address of the callers' AP handles:
\* 0x0000000000001000, 0x0000000100002000, 0x8000010000003005
ApAddresses == {Bits(\h1000), Bits(\h2000) \cup {32}, Bits(\h3005) \cup {40, 63}}
\* register offsets: 0x0100, 0xd1fc, 0x2114
Addrs == IF Cardinality(threads) = 1 THEN {\h100, \hd1fc, \h2114} ELSE {\hd1fc}
\* values written and read through the AP proxy: 0, 0x80000001
DataVals == IF Cardinality(threads) = 1 THEN {{}, {0, 31}} ELSE {{}}

NoCall == [ap |-> 0, addr |-> 0, writes |-> <<>>]

IdleThread ==
    [pc |-> "idle", op |-> "none", ap |-> 0, addr |-> 0, value |-> {},
     base_ap |-> {}, dpidr1 |-> {}, baseptr0 |-> {}, baseptr1 |-> {},
     base_address |-> {}, result |-> {}, i |-> 0, ret |-> "none",
     diag |-> "none", log |-> <<>>, prev |-> NoCall, calls |-> 0]

\* apollo3.c: the targets apollo_3_probe is run on, and how many
\* target_flash_s blocks the heap can still hand out before calloc fails.
TargetIds == {1, 2}
MaxAlloc == 3

NoTarget == [driver |-> "none", flash |-> <<>>]

ApolloIdle ==
    [pc |-> "idle", target |-> 0, mcu_vendor_id |-> {}, flash |-> "none",
     ret |-> "none", diag |-> "none", allocated |-> 0, before |-> 0,
     targets |-> [g \in TargetIds |-> NoTarget]]


InitCommon ==
    /\ owner = 0
    /\ apollo = ApolloIdle
    /\ th = [t \in AllThreads |-> IdleThread]

\* Single-threaded use: one caller, every call runs to completion.
Init ==
    /\ InitCommon
    /\ threads = {1}
    /\ locking = FALSE
    /\ dp = [ap_read |-> "unset", ap_write |-> "unset", address_width |-> 0]
    /\ select = {}
    /\ select1 = {}
    /\ aps \in [ApIds -> ApAddresses]

\* Two callers on the one DP, with or without a lock around each call.  The
\* DP is as an earlier adiv6_dp_init left it when BASEPTR0 read as 0x00001000
\* under a DPIDR1 of 40: handlers stored, SELECT on bank 3, SELECT1 untouched.
InitConc ==
    /\ InitCommon
    /\ dp = [ap_read |-> "adiv6_ap_reg_read", ap_write |-> "adiv6_ap_reg_write",
             address_width |-> 40]
    /\ select = ADIV5_DP_BANK3
    /\ select1 = {}
    /\ threads = {1, 2}
    /\ locking \in BOOLEAN
    /\ aps = [a \in ApIds |-> IF a = 1 THEN Bits(\h1000) ELSE Bits(\h2000) \cup {32}]

(* ------------------------------------------------------------------ *)
(* The DP primitives adiv5_dp_write / adiv5_dp_read and the DP's window *)
(* ------------------------------------------------------------------ *)

\* The DP register a DP access at address reg reaches (A[3:2]); an access
\* with ADIV5_APnDP set goes to the AP register window instead.
IsApAccess(reg) == (Bits(reg) \cap Bits(ADIV5_APnDP)) # {}
DpRegister(reg) == Val(Bits(reg) \cap {2, 3})

\* The register an access at address reg reaches, given what the DP's
\* SELECT and SELECT1 hold: an AP access goes through the window SELECT1:SELECT
\* opens, a DP access at 0x0 or 0x4 to the bank SELECT.DPBANKSEL names, and
\* SELECT (0x8) and RDBUFF (0xc) are not banked.
Target(reg) ==
    IF IsApAccess(reg)
    THEN [space |-> "AP", sel1 |-> select1, sel |-> select, a |-> DpRegister(reg)]
    ELSE IF DpRegister(reg) \in {\h0, \h4}
         THEN [space |-> "DP", bank |-> DPBANKSEL(select), a |-> DpRegister(reg)]
         ELSE [space |-> "DP", a |-> DpRegister(reg)]

\* One entry of a call's record of DP operations: the operation, the address
\* and value it carries, and the register it reached.
LogEntry(kind, reg, val) ==
    [op |-> kind, reg |-> reg, val |-> val, target |-> Target(reg)]

\* SELECT after adiv5_dp_write(dp, reg, val)
SelectAfterWrite(reg, val) ==
    IF ~IsApAccess(reg) /\ DpRegister(reg) = ADIV5_DP_SELECT THEN val ELSE select

\* SELECT1 after adiv5_dp_write(dp, reg, val): address 0x4 is SELECT1 only
\* while SELECT.DPBANKSEL is bank 5.
Select1AfterWrite(reg, val) ==
    IF /\ ~IsApAccess(reg)
       /\ DpRegister(reg) = ADIV6_DP_SELECT1
       /\ DPBANKSEL(select) = ADIV5_DP_BANK5
    THEN val ELSE select1

\* The effect of adiv5_dp_write(dp, reg, val) issued by caller t, which then
\* continues as next.
DpWrite(t, reg, val, next) ==
    /\ select' = SelectAfterWrite(reg, val)
    /\ select1' = Select1AfterWrite(reg, val)
    /\ th' = [th EXCEPT ![t] =
                [next EXCEPT !.log = Append(th[t].log, LogEntry("W", reg, val))]]

\* The effect of adiv5_dp_read(dp, reg) returning val to caller t.
DpRead(t, reg, val, next) ==
    /\ th' = [th EXCEPT ![t] =
                [next EXCEPT !.log = Append(th[t].log, LogEntry("R", reg, val))]]
    /\ UNCHANGED <<select, select1>>

(* ------------------------------------------------------------------ *)
(* Callers                                                             *)
(* ------------------------------------------------------------------ *)

\* Caller t may start a call: it is idle and, under locking, the lock is free.
CanCall(t) ==
    /\ t \in threads
    /\ th[t].pc = "idle"
    /\ locking => owner = 0
    /\ Cardinality(threads) > 1 => th[1].calls + th[2].calls < MaxCalls

\* The calls caller t has made once it starts another one (counted only
\* where MaxCalls applies).
CallsAfter(t) == IF Cardinality(threads) > 1 THEN th[t].calls + 1 ELSE 0

Acquire(t) == owner' = IF locking THEN t ELSE 0
Release == owner' = 0

\* The DP writes of a call's record, in order, as (register, value) pairs.
RECURSIVE WritesOf(_)
WritesOf(log) ==
    IF log = <<>> THEN <<>>
    ELSE IF Head(log).op = "W"
         THEN <<[reg |-> Head(log).reg, val |-> Head(log).val]>> \o WritesOf(Tail(log))
         ELSE WritesOf(Tail(log))

(* ------------------------------------------------------------------ *)
(* adiv6_ap_reg_read                                                   *)
(* ------------------------------------------------------------------ *)

\* (uint32_t)(ap->ap_address >> 32U)
ApReadSelect1Value(ap_address) == U32(Shr(ap_address, 32))

\* adiv6_ap_reg_read's SELECT value without the offset's bank bits.
ApReadSelectValue_NoBank(ap_address, addr) == U32(ap_address)

\* (uint32_t)ap->ap_address | ((bank & 0xf000U) >> 4U) | (bank & 0xf0U)
\* with bank = addr & ADIV6_AP_BANK_MASK
ApReadSelectValue(ap_address, addr) ==
    LET bank == Bits(addr) \cap ADIV6_AP_BANK_MASK
    IN  U32(ap_address) \cup Shr(bank \cap Bits(\hf000), 4) \cup (bank \cap Bits(\hf0))

\* dp->ap_read(ap, addr) with the slot holding adiv6_ap_reg_read
CallApRegRead(t) ==
    /\ CanCall(t)
    /\ dp.ap_read = "adiv6_ap_reg_read"
    /\ \E a \in ApIds, addr \in Addrs :
         th' = [th EXCEPT ![t] =
                  [IdleThread EXCEPT !.pc = "rd_bank5", !.op = "ap_read",
                                     !.ap = a, !.addr = addr,
                                     !.calls = CallsAfter(t),
                                     !.prev = IF th[t].op = "ap_read"
                                              THEN [ap |-> th[t].ap, addr |-> th[t].addr,
                                                    writes |-> WritesOf(th[t].log)]
                                              ELSE NoCall]]
    /\ Acquire(t)
    /\ UNCHANGED <<dp, aps, select, select1, threads, locking, apollo>>

\* adiv6_ap_reg_read leaving the SELECT1 set-up out when SELECT1 already holds
\* the high half.
ApRegRead_Bank5_Cached(t) ==
    /\ th[t].pc = "rd_bank5"
    /\ IF select1 = ApReadSelect1Value(aps[th[t].ap])
       THEN /\ th' = [th EXCEPT ![t].pc = "rd_select"]
            /\ UNCHANGED <<select, select1>>
       ELSE DpWrite(t, ADIV5_DP_SELECT, ADIV5_DP_BANK5,
                    [th[t] EXCEPT !.pc = "rd_select1"])
    /\ UNCHANGED <<dp, aps, threads, locking, apollo, owner>>

ApRegRead_Bank5(t) ==
    /\ th[t].pc = "rd_bank5"
    /\ DpWrite(t, ADIV5_DP_SELECT, ADIV5_DP_BANK5, [th[t] EXCEPT !.pc = "rd_select1"])
    /\ UNCHANGED <<dp, aps, threads, locking, apollo, owner>>

\* adiv6_ap_reg_read keeping SELECT1 from the last call when it already holds
\* the high half.
ApRegRead_Select1_Cached(t) ==
    /\ th[t].pc = "rd_select1"
    /\ IF select1 = ApReadSelect1Value(aps[th[t].ap])
       THEN /\ th' = [th EXCEPT ![t].pc = "rd_select"]
            /\ UNCHANGED <<select, select1>>
       ELSE DpWrite(t, ADIV6_DP_SELECT1, ApReadSelect1Value(aps[th[t].ap]),
                    [th[t] EXCEPT !.pc = "rd_select"])
    /\ UNCHANGED <<dp, aps, threads, locking, apollo, owner>>

ApRegRead_Select1(t) ==
    /\ th[t].pc = "rd_select1"
    /\ DpWrite(t, ADIV6_DP_SELECT1, ApReadSelect1Value(aps[th[t].ap]),
               [th[t] EXCEPT !.pc = "rd_select"])
    /\ UNCHANGED <<dp, aps, threads, locking, apollo, owner>>

ApRegRead_Select(t) ==
    /\ th[t].pc = "rd_select"
    /\ DpWrite(t, ADIV5_DP_SELECT, ApReadSelectValue(aps[th[t].ap], th[t].addr),
               [th[t] EXCEPT !.pc = "rd_access"])
    /\ UNCHANGED <<dp, aps, threads, locking, apollo, owner>>

\* (variant: a read that returned 0 is issued once more)
ApRegRead_Access_Retry(t) ==
    /\ th[t].pc = "rd_access"
    /\ \E v \in DataVals :
         DpRead(t, th[t].addr, v,
                IF v = {} /\ Len(th[t].log) < 4
                THEN th[t]
                ELSE [th[t] EXCEPT !.pc = "idle", !.ret = "value", !.result = v])
    /\ Release
    /\ UNCHANGED <<dp, aps, threads, locking, apollo>>

ApRegRead_Access(t) ==
    /\ th[t].pc = "rd_access"
    /\ \E v \in DataVals :
         DpRead(t, th[t].addr, v,
                [th[t] EXCEPT !.pc = "idle", !.ret = "value", !.result = v])
    /\ Release
    /\ UNCHANGED <<dp, aps, threads, locking, apollo>>

(* ------------------------------------------------------------------ *)
(* adiv6_ap_reg_write                                                  *)
(* ------------------------------------------------------------------ *)

\* (uint32_t)(ap->ap_address >> 32U)
ApWriteSelect1Value(ap_address) == U32(Shr(ap_address, 32))

\* (uint32_t)ap->ap_address | ((bank & 0xf000U) >> 4U) | (bank & 0xf0U)
ApWriteSelectValue(ap_address, addr) ==
    LET bank == Bits(addr) \cap ADIV6_AP_BANK_MASK
    IN  U32(ap_address) \cup Shr(bank \cap Bits(\hf000), 4) \cup (bank \cap Bits(\hf0))

\* dp->ap_write(ap, addr, value) with the slot holding adiv6_ap_reg_write
CallApRegWrite(t) ==
    /\ CanCall(t)
    /\ dp.ap_write = "adiv6_ap_reg_write"
    /\ \E a \in ApIds, addr \in Addrs, v \in DataVals :
         th' = [th EXCEPT ![t] =
                  [IdleThread EXCEPT !.pc = "wr_bank5", !.op = "ap_write",
                                     !.ap = a, !.addr = addr, !.value = v,
                                     !.calls = CallsAfter(t)]]
    /\ Acquire(t)
    /\ UNCHANGED <<dp, aps, select, select1, threads, locking, apollo>>

\* (variant: the write proxy selects bank 3 where SELECT1 is in bank 5)
ApRegWrite_Bank5_Bank3(t) ==
    /\ th[t].pc = "wr_bank5"
    /\ DpWrite(t, ADIV5_DP_SELECT, ADIV5_DP_BANK3, [th[t] EXCEPT !.pc = "wr_select1"])
    /\ UNCHANGED <<dp, aps, threads, locking, apollo, owner>>

ApRegWrite_Bank5(t) ==
    /\ th[t].pc = "wr_bank5"
    /\ DpWrite(t, ADIV5_DP_SELECT, ADIV5_DP_BANK5, [th[t] EXCEPT !.pc = "wr_select1"])
    /\ UNCHANGED <<dp, aps, threads, locking, apollo, owner>>

\* adiv6_ap_reg_write without its SELECT1 write.
ApRegWrite_Select1_Missing(t) ==
    /\ th[t].pc = "wr_select1"
    /\ th' = [th EXCEPT ![t].pc = "wr_select"]
    /\ UNCHANGED <<dp, aps, select, select1, threads, locking, apollo, owner>>

ApRegWrite_Select1(t) ==
    /\ th[t].pc = "wr_select1"
    /\ DpWrite(t, ADIV6_DP_SELECT1, ApWriteSelect1Value(aps[th[t].ap]),
               [th[t] EXCEPT !.pc = "wr_select"])
    /\ UNCHANGED <<dp, aps, threads, locking, apollo, owner>>

ApRegWrite_Select(t) ==
    /\ th[t].pc = "wr_select"
    /\ DpWrite(t, ADIV5_DP_SELECT, ApWriteSelectValue(aps[th[t].ap], th[t].addr),
               [th[t] EXCEPT !.pc = "wr_access"])
    /\ UNCHANGED <<dp, aps, threads, locking, apollo, owner>>

ApRegWrite_Access(t) ==
    /\ th[t].pc = "wr_access"
    /\ DpWrite(t, th[t].addr, th[t].value,
               [th[t] EXCEPT !.pc = "idle", !.ret = "void"])
    /\ Release
    /\ UNCHANGED <<dp, aps, threads, locking, apollo>>

(* ------------------------------------------------------------------ *)
(* adiv6_dp_init and adiv6_dp_read_base_address                        *)
(* ------------------------------------------------------------------ *)

\* dpidr1 & ADIV6_DP_DPIDR1_ASIZE_MASK
AddressWidth(dpidr1) == Val(dpidr1 \cap ADIV6_DP_DPIDR1_ASIZE_MASK)

\* The recombination with the shift of the high half left out.
CombineBase_NoShift(baseptr0, baseptr1) == baseptr0 \cup baseptr1

\* baseptr0 | ((uint64_t)baseptr1 << 32U)
CombineBase(baseptr0, baseptr1) == baseptr0 \cup Shl64(baseptr1, 32)

\* The validity test with its negation left out.
BaseInvalid_Inverted(base_address) == (base_address \cap ADIV6_DP_BASEPTR0_VALID) # {}

\* !(base_address & ADIV6_DP_BASEPTR0_VALID)
BaseInvalid(base_address) == (base_address \cap ADIV6_DP_BASEPTR0_VALID) = {}

\* (UINT64_C(1) << address_width) - 1U.  A shift count of 64 or more is
\* undefined: the builds either take the count modulo 64, or shift the bit
\* out so that the subtraction wraps to all ones.
WidthMasks(address_width) ==
    IF address_width < 64
    THEN {0..(address_width - 1)}
    ELSE {0..((address_width % 64) - 1), 0..63}

\* (base_address & mask) != base_address
BaseOutOfRange(base_address, mask) == (base_address \cap mask) # base_address

\* (variant: the base address is handed on unmasked)
MaskBase_None(base_address) == base_address

\* base_address &= ADIV6_DP_BASE_ADDRESS_MASK
MaskBase(base_address) == base_address \cap ADIV6_DP_BASE_ADDRESS_MASK

\* adiv6_dp_init(dp): the handlers are stored first.  Where two callers share
\* the DP, discovery is the first caller's.
CallDpInit(t) ==
    /\ CanCall(t)
    /\ Cardinality(threads) > 1 => t = 1
    /\ dp' = [dp EXCEPT !.ap_read = "adiv6_ap_reg_read",
                        !.ap_write = "adiv6_ap_reg_write"]
    /\ th' = [th EXCEPT ![t] =
                [IdleThread EXCEPT !.pc = "init_bank1", !.op = "dp_init",
                                   !.calls = CallsAfter(t)]]
    /\ Acquire(t)
    /\ UNCHANGED <<aps, select, select1, threads, locking, apollo>>

DpInit_Bank1(t) ==
    /\ th[t].pc = "init_bank1"
    /\ DpWrite(t, ADIV5_DP_SELECT, ADIV5_DP_BANK1, [th[t] EXCEPT !.pc = "init_dpidr1"])
    /\ UNCHANGED <<dp, aps, threads, locking, apollo, owner>>

\* (variant: the DPIDR1 read leaves dp->address_width as it was)
DpInit_ReadDpidr1_NoStore(t) ==
    /\ th[t].pc = "init_dpidr1"
    /\ \E v \in DPIDR1Vals :
         DpRead(t, ADIV6_DP_DPIDR1, v,
                [th[t] EXCEPT !.pc = "base_bank2", !.dpidr1 = v])
    /\ UNCHANGED <<dp, aps, threads, locking, apollo, owner>>

DpInit_ReadDpidr1(t) ==
    /\ th[t].pc = "init_dpidr1"
    /\ \E v \in DPIDR1Vals :
         /\ DpRead(t, ADIV6_DP_DPIDR1, v,
                   [th[t] EXCEPT !.pc = "base_bank2", !.dpidr1 = v])
         /\ dp' = [dp EXCEPT !.address_width = AddressWidth(v)]
    /\ UNCHANGED <<aps, threads, locking, apollo, owner>>

ReadBase_Bank2(t) ==
    /\ th[t].pc = "base_bank2"
    /\ DpWrite(t, ADIV5_DP_SELECT, ADIV5_DP_BANK2, [th[t] EXCEPT !.pc = "base_ptr0"])
    /\ UNCHANGED <<dp, aps, threads, locking, apollo, owner>>

ReadBase_Baseptr0(t) ==
    /\ th[t].pc = "base_ptr0"
    /\ \E v \in BASEPTR0Vals :
         DpRead(t, ADIV6_DP_BASEPTR0, v,
                [th[t] EXCEPT !.pc = "base_bank3", !.baseptr0 = v])
    /\ UNCHANGED <<dp, aps, threads, locking, apollo, owner>>

ReadBase_Bank3(t) ==
    /\ th[t].pc = "base_bank3"
    /\ DpWrite(t, ADIV5_DP_SELECT, ADIV5_DP_BANK3, [th[t] EXCEPT !.pc = "base_ptr1"])
    /\ UNCHANGED <<dp, aps, threads, locking, apollo, owner>>

ReadBase_Baseptr1(t) ==
    /\ th[t].pc = "base_ptr1"
    /\ \E v \in BASEPTR1Vals :
         DpRead(t, ADIV6_DP_BASEPTR1, v,
                [th[t] EXCEPT !.pc = "init_validate", !.baseptr1 = v,
                              !.base_address = CombineBase(th[t].baseptr0, v)])
    /\ UNCHANGED <<dp, aps, threads, locking, apollo, owner>>

\* The two checks of the base address; on success the masked address is
\* handed to adiv6_component_probe, which builds its AP on the stack.
DpInit_Validate(t) ==
    /\ th[t].pc = "init_validate"
    /\ \/ /\ BaseInvalid(th[t].base_address)
          /\ th' = [th EXCEPT ![t].pc = "idle", ![t].ret = "false",
                              ![t].diag = "no_valid_base"]
          /\ Release
       \/ /\ ~BaseInvalid(th[t].base_address)
          /\ \E mask \in WidthMasks(dp.address_width) :
               \/ /\ BaseOutOfRange(th[t].base_address, mask)
                  /\ th' = [th EXCEPT ![t].pc = "idle", ![t].ret = "false",
                                      ![t].diag = "bad_base"]
                  /\ Release
               \/ /\ ~BaseOutOfRange(th[t].base_address, mask)
                  /\ th' = [th EXCEPT ![t].pc = "id_bank5",
                                      ![t].base_address = MaskBase(th[t].base_address),
                                      ![t].base_ap = MaskBase(th[t].base_address),
                                      ![t].addr = CIDR0_OFFSET]
                  /\ UNCHANGED owner
    /\ UNCHANGED <<dp, aps, select, select1, threads, locking, apollo>>

(* ------------------------------------------------------------------ *)
(* adiv6_dp_read_id and adiv6_component_probe                          *)
(* ------------------------------------------------------------------ *)

\* (uint32_t)(ap->ap_address >> 32U)
ReadIdSelect1Value(ap_address) == U32(Shr(ap_address, 32))

\* (variant: the bank bits are redistributed as the AP proxy does)
ReadIdSelectValue_AsProxy(ap_address, addr) == ApReadSelectValue(ap_address, addr)

\* (uint32_t)ap->ap_address | (addr & 0x0ff0U)
ReadIdSelectValue(ap_address, addr) == U32(ap_address) \cup (Bits(addr) \cap Bits(\h0ff0))

\* ADIV5_APnDP | (i << 2U)
ReadIdRegister(i) == Val(Bits(ADIV5_APnDP) \cup Shl32(Bits(i), 2))

\* (variant: the whole word read is shifted in, not its low byte)
ReadIdAccumulate_NoMask(result, value, i) == result \cup Shl32(value, i * 8)

\* result | ((value & 0xffU) << (i * 8U))
ReadIdAccumulate(result, value, i) == result \cup Shl32(value \cap (0..7), i * 8)

\* (cidr & ~CID_CLASS_MASK) != CID_PREAMBLE
PreambleMismatch(cidr) == (cidr \cap Not32(CID_CLASS_MASK)) # CID_PREAMBLE

\* (variant: a component with the right preamble is reported as found)
ComponentProbeResult_Found(cidr) == IF PreambleMismatch(cidr) THEN "false" ELSE "true"

\* The probe accepting what it should reject.
ComponentProbeResult_Inverted(cidr) == IF PreambleMismatch(cidr) THEN "true" ELSE "false"

\* The value adiv6_component_probe returns for the CIDR it read.
ComponentProbeResult(cidr) == IF PreambleMismatch(cidr) THEN "false" ELSE "false"

ReadId_Bank5(t) ==
    /\ th[t].pc = "id_bank5"
    /\ DpWrite(t, ADIV5_DP_SELECT, ADIV5_DP_BANK5, [th[t] EXCEPT !.pc = "id_select1"])
    /\ UNCHANGED <<dp, aps, threads, locking, apollo, owner>>

ReadId_Select1(t) ==
    /\ th[t].pc = "id_select1"
    /\ DpWrite(t, ADIV6_DP_SELECT1, ReadIdSelect1Value(th[t].base_ap),
               [th[t] EXCEPT !.pc = "id_select"])
    /\ UNCHANGED <<dp, aps, threads, locking, apollo, owner>>

ReadId_Select(t) ==
    /\ th[t].pc = "id_select"
    /\ DpWrite(t, ADIV5_DP_SELECT, ReadIdSelectValue(th[t].base_ap, th[t].addr),
               [th[t] EXCEPT !.pc = "id_read", !.result = {}, !.i = 0])
    /\ UNCHANGED <<dp, aps, threads, locking, apollo, owner>>

ReadId_Read(t) ==
    /\ th[t].pc = "id_read"
    /\ th[t].i < 4
    /\ \E v \in CIDRVals(th[t].i) :
         DpRead(t, ReadIdRegister(th[t].i), v,
                [th[t] EXCEPT !.result = ReadIdAccumulate(th[t].result, v, th[t].i),
                              !.i = th[t].i + 1,
                              !.pc = IF th[t].i + 1 < 4 THEN "id_read" ELSE "probe_check"])
    /\ UNCHANGED <<dp, aps, threads, locking, apollo, owner>>

\* (variant: the probe leaves its AP in the first of the callers' handles)
ComponentProbe_Check_KeepsAp(t) ==
    /\ th[t].pc = "probe_check"
    /\ th' = [th EXCEPT ![t].pc = "idle",
                        ![t].ret = ComponentProbeResult(th[t].result),
                        ![t].diag = IF PreambleMismatch(th[t].result)
                                    THEN "preamble_mismatch" ELSE "none",
                        ![t].base_ap = {}]
    /\ aps' = [aps EXCEPT ![1] = th[t].base_ap]
    /\ Release
    /\ UNCHANGED <<dp, select, select1, threads, locking, apollo>>

\* The preamble check and the class stub; the probe's result is dp_init's.
ComponentProbe_Check(t) ==
    /\ th[t].pc = "probe_check"
    /\ th' = [th EXCEPT ![t].pc = "idle",
                        ![t].ret = ComponentProbeResult(th[t].result),
                        ![t].diag = IF PreambleMismatch(th[t].result)
                                    THEN "preamble_mismatch" ELSE "none",
                        ![t].base_ap = {}]
    /\ Release
    /\ UNCHANGED <<dp, aps, select, select1, threads, locking, apollo>>

(* ------------------------------------------------------------------ *)
(* apollo3.c: apollo_3_probe and apollo_3_add_flash                    *)
(* ------------------------------------------------------------------ *)

flash_size == {}
flash_base_address == {}
flash_block_size == Bits(\h2000)
vendor_id_address == Bits(\h40020010)
vendor_id == Bits(\h414d4251)

\* what target_mem_read32 returns from vendor_id_address:
\* the vendor's ID, 0x414d4250, 0
VendorIdVals == {vendor_id, Bits(\h414d4250), {}}

\* the stubs behind flash->erase and flash->write
apollo_3_flash_erase == FALSE
apollo_3_flash_write == FALSE

\* the target_flash_s apollo_3_add_flash fills in
NewFlash ==
    [start |-> flash_base_address, length |-> flash_size,
     blocksize |-> flash_block_size, erase |-> "apollo_3_flash_erase",
     write |-> "apollo_3_flash_write", erased |-> Bits(\hff)]

\* target_add_flash: the region joins the target's list of flash regions
target_add_flash(targets, g, flash) ==
    [targets EXCEPT ![g].flash = Append(@, flash)]

AdivUnchanged == UNCHANGED <<dp, aps, select, select1, th, threads, locking, owner>>

\* apollo_3_probe(target) is entered
CallApollo3Probe ==
    /\ apollo.pc = "idle"
    /\ \E g \in TargetIds :
          apollo' = [apollo EXCEPT !.pc = "probe_vendor", !.target = g,
                                   !.mcu_vendor_id = {}, !.flash = "none",
                                   !.ret = "none", !.diag = "none",
                                   !.before = Len(apollo.targets[g].flash)]
    /\ AdivUnchanged

\* the vendor ID is read and compared; a mismatch ends the probe with false
Apollo3Probe_VendorId ==
    /\ apollo.pc = "probe_vendor"
    /\ \E v \in VendorIdVals :
          IF v # vendor_id
          THEN apollo' = [apollo EXCEPT !.pc = "idle", !.mcu_vendor_id = v,
                                        !.ret = "false"]
          ELSE apollo' = [apollo EXCEPT !.pc = "probe_driver",
                                        !.mcu_vendor_id = v]
    /\ AdivUnchanged

\* t->driver = "apollo 3", then apollo_3_add_flash(target) is entered
Apollo3Probe_Driver ==
    /\ apollo.pc = "probe_driver"
    /\ apollo' = [apollo EXCEPT !.pc = "flash_calloc",
                                !.targets[apollo.target].driver = "apollo 3"]
    /\ AdivUnchanged

\* calloc(1, sizeof(*flash)): a block, or NULL; NULL always once the heap
\* has handed out MaxAlloc blocks
Apollo3AddFlash_Calloc ==
    /\ apollo.pc = "flash_calloc"
    /\ \E ok \in BOOLEAN :
          /\ ok => apollo.allocated < MaxAlloc
          /\ apollo' = [apollo EXCEPT
                           !.pc = "flash_check",
                           !.flash = IF ok THEN "block" ELSE "NULL",
                           !.allocated = IF ok THEN @ + 1 ELSE @]
    /\ AdivUnchanged

\* if (!flash): warn and return; otherwise fill the block in and register it
Apollo3AddFlash_Register ==
    /\ apollo.pc = "flash_check"
    /\ IF apollo.flash = "NULL"
       THEN apollo' = [apollo EXCEPT !.pc = "probe_return",
                                     !.diag = "calloc_failed"]
       ELSE apollo' = [apollo EXCEPT
                          !.pc = "probe_return",
                          !.targets = target_add_flash(@, apollo.target, NewFlash)]
    /\ AdivUnchanged

\* apollo_3_add_flash has returned: return true
Apollo3Probe_Return ==
    /\ apollo.pc = "probe_return"
    /\ apollo' = [apollo EXCEPT !.pc = "idle", !.ret = "true"]
    /\ AdivUnchanged

(* ------------------------------------------------------------------ *)
(* Specifications                                                      *)
(* ------------------------------------------------------------------ *)

Next ==
    \E t \in AllThreads :
        \/ CallApRegRead(t)
        \/ ApRegRead_Bank5(t)
        \/ ApRegRead_Select1(t)
        \/ ApRegRead_Select(t)
        \/ ApRegRead_Access(t)
        \/ CallApRegWrite(t)
        \/ ApRegWrite_Bank5(t)
        \/ ApRegWrite_Select1(t)
        \/ ApRegWrite_Select(t)
        \/ ApRegWrite_Access(t)
        \/ CallDpInit(t)
        \/ DpInit_Bank1(t)
        \/ DpInit_ReadDpidr1(t)
        \/ ReadBase_Bank2(t)
        \/ ReadBase_Baseptr0(t)
        \/ ReadBase_Bank3(t)
        \/ ReadBase_Baseptr1(t)
        \/ DpInit_Validate(t)
        \/ ReadId_Bank5(t)
        \/ ReadId_Select1(t)
        \/ ReadId_Select(t)
        \/ ReadId_Read(t)
        \/ ComponentProbe_Check(t)

\* Single-threaded use of one DP.
Spec == Init /\ [][Next]_vars

\* Two callers sharing the DP.
SpecConc == InitConc /\ [][Next]_vars

\* apollo_3_probe run on the targets, one probe at a time.
NextApollo ==
    \/ CallApollo3Probe
    \/ Apollo3Probe_VendorId
    \/ Apollo3Probe_Driver
    \/ Apollo3AddFlash_Calloc
    \/ Apollo3AddFlash_Register
    \/ Apollo3Probe_Return

InitApollo ==
    /\ InitCommon
    /\ threads = {1}
    /\ locking = FALSE
    /\ dp = [ap_read |-> "unset", ap_write |-> "unset", address_width |-> 0]
    /\ select = {}
    /\ select1 = {}
    /\ aps = [a \in ApIds |-> Bits(\h1000)]

SpecApollo == InitApollo /\ [][NextApollo]_vars

(* ------------------------------------------------------------------ *)
(* Vocabulary of the properties                                        *)
(* ------------------------------------------------------------------ *)

\* Caller t's last call has returned.
Completed(t) == th[t].pc = "idle" /\ th[t].ret # "none"
IsApCall(t) == th[t].op \in {"ap_read", "ap_write"}

\* The two halves of a 64-bit address and their recombination.
LowHalf(a) == {b \in a : b \in 0..31}
HighHalf(a) == {b - 32 : b \in {c \in a : c \in 32..63}}
Combine(low, high) == low \cup {b + 32 : b \in high}

\* The bank bits of a register offset as they sit in SELECT: offset bits
\* 15..12 moved down to 11..8, offset bits 7..4 in place.
OffsetBankBits(addr) ==
    {b - 4 : b \in (Bits(addr) \cap (12..15))} \cup (Bits(addr) \cap (4..7))

\* A call's DP operations without the registers they reached.
RECURSIVE OpsOf(_)
OpsOf(log) ==
    IF log = <<>> THEN <<>>
    ELSE <<[op |-> Head(log).op, reg |-> Head(log).reg, val |-> Head(log).val]>>
         \o OpsOf(Tail(log))

DpOp(kind, reg, val) == [op |-> kind, reg |-> reg, val |-> val]

IsWriteTo(e, reg) == e.op = "W" /\ e.reg = reg
\* An access through the window: anything but a write of SELECT or SELECT1.
IsWindowed(e) == ~IsWriteTo(e, ADIV5_DP_SELECT) /\ ~IsWriteTo(e, ADIV6_DP_SELECT1)

(* ------------------------------------------------------------------ *)
(* C1                                                                  *)
(* ------------------------------------------------------------------ *)

\* C1: in every AP proxy call (read or write), whenever the low-half/bank
\* value is written to SELECT, the write just before it in the call is the
\* write of the high address half to SELECT1; no windowed access is issued
\* before both are done, and a call that has returned has done both.
C1_Select1BeforeSelect ==
    \A t \in threads :
        IsApCall(t) =>
            LET log == th[t].log
                a == aps[th[t].ap]
                IsLowWrite(k) == /\ IsWriteTo(log[k], ADIV5_DP_SELECT)
                                 /\ log[k].val = LowHalf(a) \cup OffsetBankBits(th[t].addr)
                IsHighWrite(k) == /\ IsWriteTo(log[k], ADIV6_DP_SELECT1)
                                  /\ log[k].val = HighHalf(a)
            IN  /\ \A k \in 1..Len(log) :
                     /\ IsLowWrite(k) => (k > 1 /\ IsHighWrite(k - 1))
                     /\ IsWindowed(log[k]) =>
                          \E j \in 2..(k - 1) : IsLowWrite(j) /\ IsHighWrite(j - 1)
                /\ Completed(t) => \E k \in 1..Len(log) : IsLowWrite(k)

\* An AP write to the AP at 0x0000000100002000, offset 0xd1fc, has returned.
C1_Witness ==
    \E t \in threads :
        /\ Completed(t) /\ th[t].op = "ap_write"
        /\ aps[th[t].ap] = Bits(\h2000) \cup {32}
        /\ th[t].addr = \hd1fc

(* ------------------------------------------------------------------ *)
(* C2                                                                  *)
(* ------------------------------------------------------------------ *)

\* The three bank-select writes the contract prescribes for caller t's call.
PrescribedSelects(t) ==
    <<DpOp("W", ADIV5_DP_SELECT, {0, 2}),
      DpOp("W", ADIV6_DP_SELECT1, HighHalf(aps[th[t].ap])),
      DpOp("W", ADIV5_DP_SELECT,
           LowHalf(aps[th[t].ap]) \cup OffsetBankBits(th[t].addr))>>

\* C2: every AP proxy call issues SELECT := 5 (the bank of SELECT1),
\* SELECT1 := high half, SELECT := low half | bank bits, then one read (or one
\* write of the given value) at the requested offset and nothing else, whatever
\* SELECT and SELECT1 held before; a call under way has issued a prefix of it.
C2_ExactSequence ==
    \A t \in threads :
        IsApCall(t) =>
            LET ops == OpsOf(th[t].log)
                access == IF th[t].op = "ap_read"
                          THEN DpOp("R", th[t].addr, th[t].result)
                          ELSE DpOp("W", th[t].addr, th[t].value)
            IN  IF Completed(t)
                THEN ops = PrescribedSelects(t) \o <<access>>
                ELSE /\ Len(ops) <= 3
                     /\ ops = SubSeq(PrescribedSelects(t), 1, Len(ops))

\* An AP read has returned that repeats the read before it, so SELECT1 already
\* held its high half and the bank had been selected before.
C2_Witness ==
    \E t \in threads :
        /\ Completed(t) /\ th[t].op = "ap_read"
        /\ th[t].prev # NoCall
        /\ th[t].prev.ap = th[t].ap /\ th[t].prev.addr = th[t].addr
        /\ th[t].log[2].target.bank = {0, 2}
        /\ HighHalf(aps[th[t].ap]) # {}

(* ------------------------------------------------------------------ *)
(* C3                                                                  *)
(* ------------------------------------------------------------------ *)

\* C3: once adiv6_dp_init has returned false, dp.ap_read and dp.ap_write do
\* not hold this file's AP proxy functions.
C3_HandlersOnSuccessOnly ==
    \A t \in threads :
        (Completed(t) /\ th[t].op = "dp_init" /\ th[t].ret = "false") =>
            /\ dp.ap_read # "adiv6_ap_reg_read"
            /\ dp.ap_write # "adiv6_ap_reg_write"

(* ------------------------------------------------------------------ *)
(* C4                                                                  *)
(* ------------------------------------------------------------------ *)

\* The discovery reads up to and including BASEPTR1, each behind the SELECT
\* write of its bank.
DiscoveryOps(t) ==
    <<DpOp("W", ADIV5_DP_SELECT, {0}),
      DpOp("R", \h0, th[t].dpidr1),
      DpOp("W", ADIV5_DP_SELECT, {1}),
      DpOp("R", \h0, th[t].baseptr0),
      DpOp("W", ADIV5_DP_SELECT, {0, 1}),
      DpOp("R", \h0, th[t].baseptr1)>>

\* C4: when BASEPTR0 read with bit 0 clear, adiv6_dp_init issues nothing after
\* the BASEPTR1 read (no SELECT1 write, no CIDR read: the probe is never
\* entered) and returns false, whatever DPIDR1 and BASEPTR1 read as.
C4_InvalidBaseStops ==
    \A t \in threads :
        LET log == th[t].log
        IN  (th[t].op = "dp_init" /\ Len(log) >= 4 /\ 0 \notin log[4].val) =>
                /\ Len(log) <= 6
                /\ th[t].pc \in {"base_bank3", "base_ptr1", "init_validate", "idle"}
                /\ \A k \in 1..Len(log) : ~IsWriteTo(log[k], ADIV6_DP_SELECT1)
                /\ Completed(t) => /\ th[t].ret = "false"
                                   /\ OpsOf(log) = DiscoveryOps(t)

\* adiv6_dp_init has returned after BASEPTR0 read as 0x00001000 (Scenario B)
\* with an address width and a BASEPTR1 that would otherwise have passed.
C4_Witness ==
    \E t \in threads :
        /\ Completed(t) /\ th[t].op = "dp_init"
        /\ th[t].baseptr0 = Bits(\h1000)
        /\ th[t].baseptr1 = Bits(\h2)
        /\ dp.address_width = 40

(* ------------------------------------------------------------------ *)
(* C5                                                                  *)
(* ------------------------------------------------------------------ *)

\* adiv6_dp_init went on to the component probe: it issued more than the
\* discovery reads.
Probed(t) == Len(th[t].log) > 6

\* C5: for an adiv6_dp_init that has returned and whose candidate base
\* address had its validity bit set: a bit at a position >= address_width
\* set means false without a probe, and no such bit set means the probe ran.
C5_WidthValidation ==
    \A t \in threads :
        (Completed(t) /\ th[t].op = "dp_init" /\ 0 \in th[t].baseptr0) =>
            LET candidate == Combine(th[t].baseptr0, th[t].baseptr1)
                w == dp.address_width
            IN  IF \E b \in candidate : b >= w
                THEN th[t].ret = "false" /\ ~Probed(t)
                ELSE Probed(t)

(* ------------------------------------------------------------------ *)
(* C6                                                                  *)
(* ------------------------------------------------------------------ *)

\* C6: a component probe that has read a CIDR whose bits outside the class
\* nibble (bits 15..12) differ from the preamble 0xb105000d returns false,
\* whatever the class nibble.
C6_PreambleMismatchFails ==
    \A t \in threads :
        (Completed(t) /\ th[t].op = "dp_init" /\ Probed(t)
           /\ (th[t].result \ (12..15)) # CID_PREAMBLE) =>
            th[t].ret = "false"

\* A probe has returned on a CIDR of 0xb104100d: class nibble 1, byte 2 wrong.
C6_Witness ==
    \E t \in threads :
        /\ Completed(t) /\ th[t].op = "dp_init" /\ Probed(t)
        /\ th[t].result = Bits(\h3104100d) \cup {31}

(* ------------------------------------------------------------------ *)
(* C7                                                                  *)
(* ------------------------------------------------------------------ *)

\* The value the call last wrote to register reg before its k-th operation,
\* as a set of one value (of none when it wrote none): what the call means
\* the register to hold.
RECURSIVE OwnValue(_, _, _)
OwnValue(log, k, reg) ==
    IF k <= 1 THEN {}
    ELSE IF IsWriteTo(log[k - 1], reg) THEN {log[k - 1].val}
         ELSE OwnValue(log, k - 1, reg)

\* The k-th operation of caller t's call went through the window while SELECT
\* (or, for an AP access, SELECT1) held something else than what the call
\* itself had put there: it reached another register than the one it meant.
WrongRegister(t, k) ==
    LET log == th[t].log
        e == log[k]
    IN  /\ IsWindowed(e) \/ IsWriteTo(e, ADIV6_DP_SELECT1)
        /\ \/ /\ e.target.space = "AP"
              /\ \/ {e.target.sel} # OwnValue(log, k, ADIV5_DP_SELECT)
                 \/ {e.target.sel1} # OwnValue(log, k, ADIV6_DP_SELECT1)
           \/ /\ e.target.space = "DP"
              /\ e.target.a \in {\h0, \h4}
              /\ {e.target.bank} #
                   {DPBANKSEL(v) : v \in OwnValue(log, k, ADIV5_DP_SELECT)}

Misdirected(t) == \E k \in 1..Len(th[t].log) : WrongRegister(t, k)

\* C7: with two callers on one DP, no access of any call reaches a wrong
\* register when every call runs under the DP's lock (each bank-select and
\* access sequence is indivisible); without the lock, interleaved at single
\* DP operations, a wrong-register access is reachable (C7_Witness).
C7_IndivisibleNeverMisdirected ==
    locking => \A t \in threads : ~Misdirected(t)

\* Without the lock: both callers ran an AP access, to different APs, and the
\* final access of one went out under the other's SELECT1.
C7_Witness ==
    /\ ~locking
    /\ \A t \in threads : Completed(t) /\ IsApCall(t)
    /\ th[1].ap # th[2].ap
    /\ \E t \in threads :
         /\ WrongRegister(t, 4)
         /\ th[t].log[4].target.sel1 = HighHalf(aps[th[3 - t].ap])
         /\ th[t].log[4].target.sel1 # HighHalf(aps[th[t].ap])

(* ------------------------------------------------------------------ *)
(* C8                                                                  *)
(* ------------------------------------------------------------------ *)

\* C8: an AP read that repeats the read before it (same AP handle, same
\* offset) issues the same DP writes, in the same order with the same values,
\* as that read did.
C8_RepeatedReadSameWrites ==
    \A t \in threads :
        (Completed(t) /\ th[t].op = "ap_read" /\ th[t].prev # NoCall
           /\ th[t].prev.ap = th[t].ap /\ th[t].prev.addr = th[t].addr) =>
            WritesOf(th[t].log) = th[t].prev.writes

\* The read of offset 0x2114 of the AP at 0x8000010000003005 has returned
\* twice in a row, the first time with SELECT1 holding something else.
C8_Witness ==
    \E t \in threads :
        /\ Completed(t) /\ th[t].op = "ap_read" /\ th[t].prev # NoCall
        /\ th[t].prev.ap = th[t].ap /\ th[t].prev.addr = th[t].addr
        /\ th[t].addr = \h2114
        /\ aps[th[t].ap] = Bits(\h3005) \cup {40, 63}
        /\ Len(th[t].prev.writes) = 3

(* ------------------------------------------------------------------ *)
(* C9                                                                  *)
(* ------------------------------------------------------------------ *)

\* C9: splitting and recombining is lossless where the code does it.  The
\* base address adiv6_dp_read_base_address returns has BASEPTR0 as its low
\* and BASEPTR1 as its high 32 bits.  For an AP at an address, the value
\* written to SELECT1 is the address's high half and the value written to
\* SELECT is its low half with the bank bits OR-ed in, and the two halves
\* recombine to the address: for the callers' APs in the AP proxy, and for the
\* AP the probe puts at the (masked) base address.
C9_SplitCombineRoundTrip ==
    \A t \in threads :
        /\ (th[t].op = "dp_init" /\ th[t].pc = "init_validate") =>
              /\ LowHalf(th[t].base_address) = th[t].baseptr0
              /\ HighHalf(th[t].base_address) = th[t].baseptr1
              /\ th[t].base_address = Combine(th[t].baseptr0, th[t].baseptr1)
        /\ (th[t].op = "dp_init" /\ Completed(t) /\ Probed(t)) =>
              LET a == th[t].base_address
                  high == th[t].log[8].val
                  low == th[t].log[9].val
              IN  /\ high = HighHalf(a) /\ high = th[t].baseptr1
                  /\ LowHalf(a) \subseteq low /\ low \ LowHalf(a) \subseteq 4..11
                  /\ CombineBase(LowHalf(a), high) = a
        /\ (IsApCall(t) /\ Completed(t)) =>
              LET a == aps[th[t].ap]
                  high == th[t].log[2].val
                  low == th[t].log[3].val
              IN  /\ high = HighHalf(a)
                  /\ low = LowHalf(a) \cup OffsetBankBits(th[t].addr)
                  /\ CombineBase(LowHalf(a), high) = a

\* adiv6_dp_init has returned after probing the AP at a base address read
\* with a BASEPTR1 of 0x00000100 and a BASEPTR0 of 0x80002003.
C9_Witness ==
    \E t \in threads :
        /\ th[t].op = "dp_init" /\ Completed(t) /\ Probed(t)
        /\ th[t].baseptr0 = Bits(\h2003) \cup {31}
        /\ th[t].baseptr1 = Bits(\h100)

(* ------------------------------------------------------------------ *)
(* C11                                                                 *)
(* ------------------------------------------------------------------ *)

\* The registers adiv6_dp_init accesses, in order: DPIDR1, BASEPTR0 and
\* BASEPTR1 each behind its SELECT write, then the probe's three
\* bank-select writes and the four CIDR reads.
InitShape ==
    <<[op |-> "W", reg |-> ADIV5_DP_SELECT], [op |-> "R", reg |-> \h0],
      [op |-> "W", reg |-> ADIV5_DP_SELECT], [op |-> "R", reg |-> \h0],
      [op |-> "W", reg |-> ADIV5_DP_SELECT], [op |-> "R", reg |-> \h0],
      [op |-> "W", reg |-> ADIV5_DP_SELECT], [op |-> "W", reg |-> ADIV6_DP_SELECT1],
      [op |-> "W", reg |-> ADIV5_DP_SELECT],
      [op |-> "R", reg |-> \h100], [op |-> "R", reg |-> \h104],
      [op |-> "R", reg |-> \h108], [op |-> "R", reg |-> \h10c]>>

\* The positions adiv6_dp_init can be at after n operations: Start (before
\* the DPIDR1 read), DPIdentified (up to the BASEPTR1 read), BaseAddressRead
\* (the two checks), BaseAddressValidated (the probe's selects and reads),
\* ComponentProbed (the preamble check).
InitPcsAt(n) ==
    IF n = 0 THEN {"init_bank1"}
    ELSE IF n = 6 THEN {"init_validate", "id_bank5"}
    ELSE {<<"init_dpidr1", "base_bank2", "base_ptr0", "base_bank3", "base_ptr1",
            "init_validate", "id_select1", "id_select", "id_read",
            "id_read", "id_read", "id_read", "probe_check">>[n]}

\* adiv6_dp_init is past its two checks of the base address.
Validated(t) == th[t].pc = "id_bank5" \/ Len(th[t].log) > 6

\* The bank whose register at 0x0 the k-th operation reads.
BankReadAt(k) ==
    IF k = 2 THEN ADIV5_DP_BANK1 ELSE IF k = 4 THEN ADIV5_DP_BANK2 ELSE ADIV5_DP_BANK3

\* The discovery state a position of adiv6_dp_init belongs to: 1 Start,
\* 2 DPIdentified, 3 BaseAddressRead, 4 BaseAddressValidated, 5 ComponentProbed.
InitStage(pc) ==
    CASE pc \in {"init_bank1", "init_dpidr1"} -> 1
      [] pc \in {"base_bank2", "base_ptr0", "base_bank3", "base_ptr1"} -> 2
      [] pc = "init_validate" -> 3
      [] pc \in {"id_bank5", "id_select1", "id_select", "id_read"} -> 4
      [] pc = "probe_check" -> 5

\* What holds of a running or finished adiv6_dp_init at every moment.
InitInOrder ==
    \A t \in threads :
        LET log == th[t].log
            n == Len(log)
        IN  th[t].op = "dp_init" =>
              /\ n <= Len(InitShape)
              /\ \A k \in 1..n : log[k].op = InitShape[k].op /\ log[k].reg = InitShape[k].reg
              /\ th[t].pc # "idle" => th[t].pc \in InitPcsAt(n)
              /\ Completed(t) => n \in {6, Len(InitShape)}
              /\ n >= 2 => /\ th[t].dpidr1 = log[2].val
                           /\ dp.address_width = Val(log[2].val \cap (0..6))
              /\ n >= 4 => th[t].baseptr0 = log[4].val
              /\ n >= 6 => th[t].baseptr1 = log[6].val
              /\ \A k \in {j \in {2, 4, 6} : j <= n} :
                    /\ log[k - 1].val = BankReadAt(k)
                    /\ log[k].target = [space |-> "DP", bank |-> BankReadAt(k), a |-> \h0]
              /\ Validated(t) =>
                    /\ 0 \in log[4].val
                    /\ \A b \in Combine(log[4].val, log[6].val) : b < dp.address_width
              /\ \A k \in {j \in 10..13 : j <= n} :
                    /\ log[k].target.space = "AP"
                    /\ log[k].target.sel = log[9].val
                    /\ log[k].target.sel1 = log[8].val

\* What holds of every step: a call of adiv6_dp_init starts in Start, each
\* step of it keeps what it has done and stays in its discovery state or
\* moves to the next one, and it returns only from BaseAddressRead (a check
\* failed) or from ComponentProbed.
InitStep ==
    \A t \in threads :
        /\ (th[t].pc = "idle" /\ th'[t].pc # "idle" /\ th'[t].op = "dp_init") =>
                InitStage(th'[t].pc) = 1
        /\ (th[t].pc # "idle" /\ th[t].op = "dp_init" /\ th'[t] # th[t]) =>
                /\ Len(th'[t].log) >= Len(th[t].log)
                /\ SubSeq(th'[t].log, 1, Len(th[t].log)) = th[t].log
                /\ IF th'[t].pc = "idle"
                   THEN InitStage(th[t].pc) \in {3, 5}
                   ELSE InitStage(th'[t].pc) - InitStage(th[t].pc) \in {0, 1}

C12_InitAlwaysFails ==
    \A t \in threads :
        th[t].op = "dp_init" =>
            /\ th[t].ret \in {"none", "false"}
            /\ Completed(t) => th[t].ret = "false"

\* A probe has returned false on a CIDR of 0xb105900d: the preamble matches,
\* class nibble 9, and no mismatch was reported.
C12_Witness ==
    \E t \in threads :
        /\ Completed(t) /\ th[t].op = "dp_init" /\ Probed(t)
        /\ th[t].result = Bits(\h3105900d) \cup {31}
        /\ th[t].diag = "none"
        /\ th[t].ret = "false"

(* ------------------------------------------------------------------ *)
(* C13                                                                 *)
(* ------------------------------------------------------------------ *)

\* bank = addr & ADIV6_AP_BANK_MASK, and its bits as the claim places them
\* in SELECT: ((bank & 0xf000) >> 4) | (bank & 0xf0)
BankOf(addr) == Bits(addr) \cap ADIV6_AP_BANK_MASK
Redistributed(addr) ==
    {b - 4 : b \in (BankOf(addr) \cap Bits(\hf000))} \cup (BankOf(addr) \cap Bits(\hf0))

\* C13: the third write of every AP proxy call, read or write, puts
\* low32(ap_address) | ((bank & 0xf000) >> 4) | (bank & 0xf0) into SELECT,
\* bank being addr & ADIV6_AP_BANK_MASK; the read proxy and the write proxy
\* compute the same value from the same handle and offset; and when bits
\* 11..4 of ap_address are clear, bits 11..4 of the value written are exactly
\* the redistributed offset bits.
C13_SelectValue ==
    /\ \A t \in threads :
          LET log == th[t].log
              a == aps[th[t].ap]
          IN  (IsApCall(t) /\ Len(log) >= 3) =>
                /\ IsWriteTo(log[3], ADIV5_DP_SELECT)
                /\ log[3].val = LowHalf(a) \cup Redistributed(th[t].addr)
                /\ (a \cap (4..11)) = {} =>
                       (log[3].val \cap (4..11)) = Redistributed(th[t].addr)
    /\ \A a \in ApAddresses : \A addr \in Addrs :
          ApReadSelectValue(a, addr) = ApWriteSelectValue(a, addr)

\* An AP write through the handle at 0x1000 to offset 0xd1fc has returned
\* after writing 0x00001df0 to SELECT.
C13_Witness ==
    \E t \in threads :
        /\ Completed(t) /\ th[t].op = "ap_write"
        /\ aps[th[t].ap] = Bits(\h1000) /\ th[t].addr = \hd1fc
        /\ th[t].log[3].val = Bits(\h1df0)

(* ------------------------------------------------------------------ *)
(* C14                                                                 *)
(* ------------------------------------------------------------------ *)

\* The number of CIDR reads a probe makes.
CidrReads == 4

\* byte0 | byte1 << 8 | ... of the first n CIDR reads of a log, each byte
\* the low eight bits of the word read.
RECURSIVE BytesOf(_, _)
BytesOf(log, n) ==
    IF n = 0 THEN {}
    ELSE BytesOf(log, n - 1) \cup {b + 8 * (n - 1) : b \in (log[9 + n].val \cap (0..7))}

\* C14: the probe reads its CIDR with exactly four reads, the i-th
\* (i = 0..3) at window offset i*4, all after the one bank-select sequence
\* (no SELECT or SELECT1 write among or after them), and the identifier is
\* byte0 | byte1 << 8 | byte2 << 16 | byte3 << 24 of the low bytes of the
\* four words read: bits 8..31 of a word read are in no bit of the result.
C14_CidrFromFourBytes ==
    \A t \in threads :
        LET log == th[t].log
            n == Len(log)
        IN  (th[t].op = "dp_init" /\ n >= 9) =>
              /\ n <= 9 + CidrReads
              /\ \A k \in 10..n :
                    /\ log[k].op = "R"
                    /\ Bits(log[k].reg) = Bits(ADIV5_APnDP) \cup Bits(4 * (k - 10))
                    /\ log[k].target.a = 4 * (k - 10)
                    /\ log[k].target.sel = log[9].val
                    /\ log[k].target.sel1 = log[8].val
              /\ th[t].result = BytesOf(log, n - 9)
              /\ th[t].pc = "id_read" <=> n < 9 + CidrReads
              /\ Completed(t) => n = 9 + CidrReads

\* A probe has returned after reading 0x0000ab0d, 0x00007790, 0x00000005
\* and 0x800000b1: the identifier is 0xb105900d.
C14_Witness ==
    \E t \in threads :
        /\ Completed(t) /\ th[t].op = "dp_init" /\ Probed(t)
        /\ th[t].log[10].val = Bits(\hab0d)
        /\ th[t].log[11].val = Bits(\h7790)
        /\ th[t].log[12].val = Bits(\h05)
        /\ th[t].log[13].val = Bits(\hb1) \cup {31}
        /\ th[t].result = Bits(\h3105900d) \cup {31}

(* ------------------------------------------------------------------ *)
(* C15                                                                 *)
(* ------------------------------------------------------------------ *)

\* The three bank-select writes adiv6_ap_reg_read issues for an AP at
\* ap_address and register offset addr.
ProxySelects(ap_address, addr) ==
    <<DpOp("W", ADIV5_DP_SELECT, ADIV5_DP_BANK5),
      DpOp("W", ADIV6_DP_SELECT1, ApReadSelect1Value(ap_address)),
      DpOp("W", ADIV5_DP_SELECT, ApReadSelectValue(ap_address, addr))>>

\* The writes adiv6_dp_read_id issued before its reads.
ReadIdSelects(t) == SubSeq(OpsOf(th[t].log), 7, 9)

\* C15 as claimed: the writes adiv6_dp_read_id issues before its reads, for
\* the synthetic AP at the root address A and the CIDR0 offset, are the three
\* bank-select writes of the AP proxy read for an AP at A and that offset:
\* same registers, same order, same values.
C15_SameWritesAsProxy ==
    \A t \in threads :
        (th[t].op = "dp_init" /\ Len(th[t].log) >= 9) =>
            ReadIdSelects(t) = ProxySelects(th[t].base_address, CIDR0_OFFSET)

\* C15 amended: the writes adiv6_dp_read_id issues before its reads go to the
\* same registers in the same order as the AP proxy read's for an AP at A and
\* the CIDR0 offset, the first two with the same values (bank 5 into SELECT,
\* the high half of A into SELECT1) and the third with the same bits outside
\* the bank field (bits 11..4); the bank bits differ: adiv6_dp_read_id ORs in
\* addr & 0x0ff0 unshifted, 0xff0 for CIDR0, where the AP proxy ORs in the
\* redistributed bits, 0x0f0 for that offset.
C15_SameShapeOwnBankBits ==
    \A t \in threads :
        (th[t].op = "dp_init" /\ Len(th[t].log) >= 9) =>
            LET own == ReadIdSelects(t)
                proxy == ProxySelects(th[t].base_address, CIDR0_OFFSET)
            IN  /\ \A k \in 1..3 : own[k].op = proxy[k].op /\ own[k].reg = proxy[k].reg
                /\ own[1] = proxy[1]
                /\ own[2] = proxy[2]
                /\ (own[3].val \ (4..11)) = (proxy[3].val \ (4..11))
                /\ (own[3].val \cap (4..11)) = Bits(\hff0)
                /\ (proxy[3].val \cap (4..11)) = Bits(\h0f0)

\* A probe at the root address 0x0000010080002000 has returned: it wrote
\* 0x00000100 to SELECT1 and 0x80002ff0 to SELECT.
C15_Witness ==
    \E t \in threads :
        /\ Completed(t) /\ th[t].op = "dp_init" /\ Probed(t)
        /\ th[t].base_address = Bits(\h2000) \cup {31, 40}
        /\ th[t].log[8].val = Bits(\h100)
        /\ th[t].log[9].val = Bits(\h2ff0) \cup {31}

(* ------------------------------------------------------------------ *)
(* C16                                                                 *)
(* ------------------------------------------------------------------ *)

\* C16: once adiv6_dp_init is past its two checks, the address the probe
\* uses is the candidate BASEPTR1:BASEPTR0 with the bits outside the
\* base-address mask cleared (so never bit 0, the valid bit) and the high
\* half unchanged; the probe writes BASEPTR1 to SELECT1, and outside the
\* offset bits 11..4 its SELECT value is BASEPTR0 with the masked low bits
\* zero.  With address_width 40, BASEPTR0 0x00001001 and BASEPTR1 0 both
\* checks pass and the probe is at 0x1000.
C16_ProbeAtMaskedBase ==
    \A t \in threads :
        LET log == th[t].log
            n == Len(log)
            candidate == Combine(th[t].baseptr0, th[t].baseptr1)
            root == candidate \cap ADIV6_DP_BASE_ADDRESS_MASK
        IN  th[t].op = "dp_init" =>
              /\ Validated(t) =>
                    /\ th[t].base_address = root
                    /\ th[t].pc # "idle" => th[t].base_ap = root
                    /\ 0 \notin th[t].base_address
                    /\ HighHalf(th[t].base_address) = th[t].baseptr1
                    /\ LowHalf(th[t].base_address) = th[t].baseptr0 \ (0..11)
              /\ n >= 8 => log[8].val = th[t].baseptr1
              /\ n >= 9 => /\ (log[9].val \ (4..11)) = (th[t].baseptr0 \ (0..11))
                           /\ (log[9].val \cap (0..3)) = {}
              /\ (/\ Completed(t)
                  /\ dp.address_width = Val(Bits(40))
                  /\ th[t].baseptr0 = Bits(\h1001)
                  /\ th[t].baseptr1 = {}) =>
                    /\ Probed(t)
                    /\ th[t].base_address = Bits(\h1000)

\* Scenario A has run: address_width 40, BASEPTR0 0x00001001, BASEPTR1 0;
\* the probe wrote 0 to SELECT1 and 0x00001ff0 to SELECT and has returned.
C16_Witness ==
    \E t \in threads :
        /\ Completed(t) /\ th[t].op = "dp_init" /\ Probed(t)
        /\ dp.address_width = Val(Bits(40))
        /\ th[t].baseptr0 = Bits(\h1001) /\ th[t].baseptr1 = {}
        /\ th[t].base_address = Bits(\h1000)
        /\ th[t].log[8].val = {}
        /\ th[t].log[9].val = Bits(\h1ff0)

(* ------------------------------------------------------------------ *)
(* C17                                                                 *)
(* ------------------------------------------------------------------ *)

\* the probe has returned after calloc failed in apollo_3_add_flash
AllocationFailed ==
    /\ apollo.pc = "idle"
    /\ apollo.mcu_vendor_id = vendor_id
    /\ apollo.flash = "NULL"

\* C17: when the vendor ID matches and calloc fails in apollo_3_add_flash,
\* the probe registers no flash region for the target, warns instead of
\* touching the missing block, and returns false.
C17_AllocFailureReportsFailure ==
    AllocationFailed =>
        /\ Len(apollo.targets[apollo.target].flash) = apollo.before
        /\ apollo.diag = "calloc_failed"
        /\ apollo.ret = "false"

(* ------------------------------------------------------------------ *)
(* C18                                                                 *)
(* ------------------------------------------------------------------ *)

\* How many operations of a log are reads of the DP register at 0x0 of the
\* given bank, reads through the AP window, writes of SELECT or SELECT1.
ReadsOfBank(log, bank) ==
    Cardinality({k \in 1..Len(log) :
        /\ log[k].op = "R" /\ log[k].target.space = "DP"
        /\ log[k].target.a = \h0 /\ log[k].target.bank = bank})
WindowReads(log) ==
    Cardinality({k \in 1..Len(log) : log[k].op = "R" /\ log[k].target.space = "AP"})
SelectWrites(log) ==
    Cardinality({k \in 1..Len(log) : ~IsWindowed(log[k])})

\* What a call has done so far never exceeds, and once it has returned is
\* exactly: for adiv6_dp_init one read each of DPIDR1, BASEPTR0 and BASEPTR1
\* and, when both checks passed, four CIDR reads, none otherwise; for an AP
\* proxy call three bank-select writes and one access at the offset asked for.
FixedShape ==
    \A t \in threads :
        LET log == th[t].log
        IN  /\ th[t].op = "dp_init" =>
                /\ ReadsOfBank(log, ADIV5_DP_BANK1) <= 1
                /\ ReadsOfBank(log, ADIV5_DP_BANK2) <= 1
                /\ ReadsOfBank(log, ADIV5_DP_BANK3) <= 1
                /\ WindowReads(log) <= CidrReads
                /\ WindowReads(log) > 0 => Validated(t)
                /\ Completed(t) =>
                      /\ ReadsOfBank(log, ADIV5_DP_BANK1) = 1
                      /\ ReadsOfBank(log, ADIV5_DP_BANK2) = 1
                      /\ ReadsOfBank(log, ADIV5_DP_BANK3) = 1
                      /\ WindowReads(log) = IF Validated(t) THEN CidrReads ELSE 0
                      /\ Len(log) = 3 + SelectWrites(log) + WindowReads(log)
            /\ IsApCall(t) =>
                /\ SelectWrites(log) <= 3
                /\ Len(log) <= SelectWrites(log) + 1
                /\ Completed(t) =>
                      /\ SelectWrites(log) = 3
                      /\ Len(log) = 4
                      /\ IsWindowed(log[4])
                      /\ log[4].reg = th[t].addr
                      /\ log[4].op = IF th[t].op = "ap_read" THEN "R" ELSE "W"

\* A step of the function caller t is in.
Running(t) ==
    \/ ApRegRead_Bank5(t) \/ ApRegRead_Select1(t) \/ ApRegRead_Select(t)
    \/ ApRegRead_Access(t)
    \/ ApRegWrite_Bank5(t) \/ ApRegWrite_Select1(t) \/ ApRegWrite_Select(t)
    \/ ApRegWrite_Access(t)
    \/ DpInit_Bank1(t) \/ DpInit_ReadDpidr1(t)
    \/ ReadBase_Bank2(t) \/ ReadBase_Baseptr0(t)
    \/ ReadBase_Bank3(t) \/ ReadBase_Baseptr1(t)
    \/ DpInit_Validate(t)
    \/ ReadId_Bank5(t) \/ ReadId_Select1(t) \/ ReadId_Select(t)
    \/ ReadId_Read(t)
    \/ ComponentProbe_Check(t)

\* The longest run of steps a call can make: the operations of a full
\* adiv6_dp_init, its validation and its preamble check.
MaxSteps == Len(InitShape) + 2

\* How far caller t is into the function it is in: the number of its
\* statements already executed, at most MaxSteps.
StepsDone(t) ==
    CASE th[t].pc \in {"rd_bank5", "wr_bank5", "init_bank1"} -> 0
      [] th[t].pc \in {"rd_select1", "wr_select1", "init_dpidr1"} -> 1
      [] th[t].pc \in {"rd_select", "wr_select", "base_bank2"} -> 2
      [] th[t].pc \in {"rd_access", "wr_access", "base_ptr0"} -> 3
      [] th[t].pc = "base_bank3" -> 4
      [] th[t].pc = "base_ptr1" -> 5
      [] th[t].pc = "init_validate" -> 6
      [] th[t].pc = "id_bank5" -> 7
      [] th[t].pc = "id_select1" -> 8
      [] th[t].pc = "id_select" -> 9
      [] th[t].pc = "id_read" -> 10 + th[t].i
      [] th[t].pc = "probe_check" -> 14
      [] OTHER -> MaxSteps

\* A caller inside a function can always take its next step: nothing in
\* adiv6.c waits for a value or a condition (in the CIDR loop the next step
\* is the read while i < 4, and the loop is left when i = 4).
NeverStuck ==
    \A t \in threads :
        th[t].pc # "idle" =>
            /\ StepsDone(t) < MaxSteps
            /\ IF th[t].pc = "id_read" THEN th[t].i < CidrReads ELSE ENABLED Running(t)

\* Every step of a caller inside a function returns or moves it forward: no
\* statement is executed twice.
Forward ==
    \A t \in threads :
        (th[t].pc # "idle" /\ th'[t] # th[t]) =>
            (th'[t].pc = "idle" \/ StepsDone(t)' > StepsDone(t))

\* C18: no register access is retried or repeated and every call ends.
\* adiv6_dp_init reads DPIDR1, BASEPTR0 and BASEPTR1 exactly once each and
\* makes exactly four CIDR reads when, and only when, both checks passed;
\* every AP proxy call makes exactly three bank-select writes and exactly one
\* access at the offset asked for.  Whatever the reads return, a caller
\* inside a function always has a next step, each step returns or moves it
\* forward, and no call makes more than MaxSteps steps: every call ends.
C18_FixedShapeAndTermination ==
    /\ []FixedShape
    /\ []NeverStuck
    /\ [][Forward]_vars

\* An AP read whose access returned 0 has returned after its four operations.
C18_Witness ==
    \E t \in threads :
        /\ Completed(t) /\ th[t].op = "ap_read"
        /\ Len(th[t].log) = 4
        /\ th[t].result = {}

(* ------------------------------------------------------------------ *)
(* C19                                                                 *)
(* ------------------------------------------------------------------ *)

\* C19: with one caller, whose calls each run to completion, an AP proxy
\* call about to make its final access finds in the DP's SELECT1 the high 32
\* bits of its own ap_address and in SELECT its own low-half|bank value, and
\* the access goes through exactly that window, whatever earlier calls of
\* adiv6_dp_init or of the proxy for other APs and offsets left there.
C19_WindowIsOwn ==
    \A t \in threads :
        LET a == aps[th[t].ap]
            own == LowHalf(a) \cup Redistributed(th[t].addr)
        IN  IsApCall(t) =>
              /\ th[t].pc \in {"rd_access", "wr_access"} =>
                    /\ select1 = HighHalf(a)
                    /\ select = own
              /\ Len(th[t].log) >= 4 =>
                    /\ th[t].log[4].target.space = "AP"
                    /\ th[t].log[4].target.sel1 = HighHalf(a)
                    /\ th[t].log[4].target.sel = own

\* After an adiv6_dp_init (the handlers are installed), an AP write through
\* the handle at 0x8000010000003005 has made its access with SELECT1 =
\* 0x80000100 and its own SELECT, the other handle having another high half.
C19_Witness ==
    \E t \in threads :
        /\ Completed(t) /\ th[t].op = "ap_write"
        /\ aps[th[t].ap] = Bits(\h3005) \cup {40, 63}
        /\ \E other \in ApIds : HighHalf(aps[other]) # HighHalf(aps[th[t].ap])
        /\ th[t].log[4].target.sel1 = Bits(\h100) \cup {31}
        /\ th[t].log[4].target.sel = LowHalf(aps[th[t].ap]) \cup Redistributed(th[t].addr)
        /\ dp.ap_write = "adiv6_ap_reg_write"

(* ------------------------------------------------------------------ *)
(* C20                                                                 *)
(* ------------------------------------------------------------------ *)

\* The operation is a write of the DP's SELECT, or of its SELECT1 (the
\* register at 0x4 while bank 5 is selected).
WritesSelectOrSelect1(e) ==
    /\ e.op = "W" /\ e.target.space = "DP"
    /\ \/ e.target.a = ADIV5_DP_SELECT
       \/ e.target.a = ADIV6_DP_SELECT1 /\ e.target.bank = ADIV5_DP_BANK5

\* What the calls write: adiv6_dp_init nothing but SELECT and SELECT1; an AP
\* proxy read likewise; an AP proxy write besides them only the register at
\* the offset asked for, with the value given.  The probe's AP is gone when
\* adiv6_dp_init has returned.
FrameWrites ==
    \A t \in threads :
        LET log == th[t].log
        IN  /\ th[t].op \in {"dp_init", "ap_read"} =>
                \A k \in 1..Len(log) : log[k].op = "W" => WritesSelectOrSelect1(log[k])
            /\ th[t].op = "ap_write" =>
                \A k \in 1..Len(log) :
                    \/ WritesSelectOrSelect1(log[k])
                    \/ /\ k = 4 /\ log[k].op = "W"
                       /\ log[k].target.space = "AP"
                       /\ log[k].reg = th[t].addr /\ log[k].val = th[t].value
            /\ th[t].pc = "idle" => th[t].base_ap = {}

\* What a step of a call leaves alone: a step of an AP proxy call the DP
\* handle (address_width, ap_read, ap_write) and every AP handle's
\* ap_address; a step of adiv6_dp_init every AP handle's ap_address, and of
\* the DP handle it changes the two slots only on entry and address_width
\* only with the DPIDR1 read.  No step touches what apollo3.c keeps.
FrameStep ==
    \A t \in threads :
        th'[t] # th[t] =>
            /\ aps' = aps
            /\ apollo' = apollo
            /\ th'[t].op \in {"ap_read", "ap_write"} => dp' = dp
            /\ th'[t].op = "dp_init" =>
                  /\ th[t].pc # "idle" =>
                        /\ dp'.ap_read = dp.ap_read
                        /\ dp'.ap_write = dp.ap_write
                  /\ th[t].pc # "init_dpidr1" => dp'.address_width = dp.address_width

\* C20: an AP proxy read or write changes only the DP's SELECT and SELECT1
\* and, for a write, the register at the offset asked for; it leaves
\* address_width, the ap_read/ap_write slots and every ap_address as they
\* were.  adiv6_dp_init changes only address_width, the two slots, SELECT and
\* SELECT1, writes no other DP register, and the AP it builds for the probe
\* is in no AP handle and not in the DP handle, and is gone when it returns.
C20_Frame == []FrameWrites /\ [][FrameStep]_vars

\* After an adiv6_dp_init that stored address_width 40 and probed, an AP
\* write has returned: the width and the handlers are as that call left them.
C20_Witness ==
    \E t \in threads :
        /\ Completed(t) /\ th[t].op = "ap_write"
        /\ dp.address_width = Val(Bits(40))
        /\ dp.ap_read = "adiv6_ap_reg_read"
        /\ th[t].log[4].op = "W" /\ th[t].log[4].target.space = "AP"
        /\ th[t].value = {0, 31}

====
